---- MODULE Spec2Model ----
(***************************************************************************)
(* A model of the CodeGraph class of code-context/src/code-graph.ts (the   *)
(* current version of the class, lines 220-619): the initialisation of the *)
(* parser and of the fact store, the extraction of facts from one syntax   *)
(* tree (processFile / traverseAndCollect), the raw query, and the         *)
(* resolution of the stored relations into a node/edge graph (getNetwork). *)
(*                                                                         *)
(* Strings that the code takes apart or puts together (paths, names, ids,  *)
(* call targets) are sequences of one-character strings, so that           *)
(* generateId, split, basename and extname are computed, not assumed.      *)
(* Strings the code only compares (node types, kinds, relation types) are  *)
(* TLA+ strings.                                                           *)
(***************************************************************************)
EXTENDS Integers, Sequences, FiniteSets, TLC

(***************************************************************************)
(* Bounds of the model.                                                    *)
(***************************************************************************)
\* processFile calls that get past the readiness and language guards
MaxCalls == 2
\* nodes below the root of the generated syntax trees (SpecExtract)
MaxNodes == 3
\* characters before the extension of the generated file paths (SpecCaller)
MaxStem == 3

(***************************************************************************)
(* Characters and strings.                                                 *)
(***************************************************************************)
\* the characters used, in ASCII order (the store returns rows sorted)
Alphabet ==
    << "'", "-", ".", "/", ":",
       "A", "B", "C", "D", "E", "F", "G", "H", "I", "J", "K", "L", "M",
       "N", "O", "P", "Q", "R", "S", "T", "U", "V", "W", "X", "Y", "Z",
       "[", "]", "_",
       "a", "b", "c", "d", "e", "f", "g", "h", "i", "j", "k", "l", "m",
       "n", "o", "p", "q", "r", "s", "t", "u", "v", "w", "x", "y", "z" >>

\* the place of each character in that order
CodeTable ==
    [ c \in { Alphabet[i] : i \in 1..Len(Alphabet) } |->
        CHOOSE i \in 1..Len(Alphabet) : Alphabet[i] = c ]

Code(c) == CodeTable[c]

RECURSIVE StrLess(_, _)
\* s < t in the lexicographic order of the character codes
StrLess(s, t) ==
    IF t = <<>> THEN FALSE
    ELSE IF s = <<>> THEN TRUE
    ELSE IF Head(s) = Head(t) THEN StrLess(Tail(s), Tail(t))
    ELSE Code(Head(s)) < Code(Head(t))

\* String.prototype.includes for a one-character needle
Includes(s, ch) == \E i \in 1..Len(s) : s[i] = ch

\* index of the first / last occurrence of ch in s, 0 when there is none
IndexOf(s, ch) ==
    IF Includes(s, ch) THEN CHOOSE i \in 1..Len(s) : s[i] = ch /\ \A j \in 1..(i-1) : s[j] # ch
    ELSE 0

LastIndexOf(s, ch) ==
    IF Includes(s, ch) THEN CHOOSE i \in 1..Len(s) : s[i] = ch /\ \A j \in (i+1)..Len(s) : s[j] # ch
    ELSE 0

\* s.split(ch)[0]
SplitFirst(s, ch) ==
    IF Includes(s, ch) THEN SubSeq(s, 1, IndexOf(s, ch) - 1) ELSE s

\* s.split(ch).pop()
SplitLast(s, ch) ==
    IF Includes(s, ch) THEN SubSeq(s, LastIndexOf(s, ch) + 1, Len(s)) ELSE s

EndsWith(s, suffix) ==
    /\ Len(suffix) <= Len(s)
    /\ SubSeq(s, Len(s) - Len(suffix) + 1, Len(s)) = suffix

\* the last segment of a POSIX path
PathBase(p) == SplitLast(p, "/")

\* path.extname: from the last '.' of the last segment, '' when there is
\* none or when it is the first character of the segment
extname(p) ==
    LET b == PathBase(p)
        i == LastIndexOf(b, ".")
    IN IF i <= 1 THEN <<>> ELSE SubSeq(b, i, Len(b))

\* path.basename(p, ext): the last segment, without ext when it ends with it
basename(p, ext) ==
    LET b == PathBase(p)
    IN IF ext # <<>> /\ b # ext /\ EndsWith(b, ext)
       THEN SubSeq(b, 1, Len(b) - Len(ext))
       ELSE b

\* the string literals of the code
DotPy == << ".", "p", "y" >>
Colon == << ":" >>
DashCall == << "-", "c", "a", "l", "l", "-" >>
DashImport == << "-", "i", "m", "p", "o", "r", "t", "-" >>
DashContains == << "-", "c", "o", "n", "t", "a", "i", "n", "s", "-" >>

\* private generateId(filePath, name)
generateId(filePath, name) == filePath \o Colon \o name

(***************************************************************************)
(* Syntax trees (the Syntax Provider's output, web-tree-sitter nodes).     *)
(* A node has a type, its source text, the field name under which its      *)
(* parent holds it ("" when none), its first and last row, and children.   *)
(***************************************************************************)
Node(type, text, field, startRow, endRow, children) ==
    [ type |-> type, text |-> text, field |-> field,
      startRow |-> startRow, endRow |-> endRow, children |-> children ]

\* node.childForFieldName(f): << >> for null, << child >> otherwise
childForFieldName(node, f) ==
    LET idx == { i \in 1..Len(node.children) : node.children[i].field = f }
    IN IF idx = {} THEN <<>>
       ELSE << node.children[CHOOSE i \in idx : \A j \in idx : i <= j] >>

\* scopeStack[scopeStack.length - 1]; reading past the end of an array
\* gives undefined, which a template literal prints as 'undefined'
Undefined == << "u", "n", "d", "e", "f", "i", "n", "e", "d" >>

Top(scopeStack) ==
    IF scopeStack = <<>> THEN Undefined ELSE scopeStack[Len(scopeStack)]

\* scopeStack.pop()
Pop(scopeStack) ==
    IF scopeStack = <<>> THEN <<>> ELSE SubSeq(scopeStack, 1, Len(scopeStack) - 1)

Min(a, b) == IF a < b THEN a ELSE b

\* The arrays and the stack that processFile creates before the traversal.
\* pushes, pops and low (the least stack length seen) only observe the
\* traversal.
NewCollect(filePath) ==
    [ symbolRows |-> <<>>, relations |-> <<>>, scopeStack |-> << filePath >>,
      pushes |-> 0, pops |-> 0, low |-> 1 ]

SymbolRow(id, filePath, name, kind, startRow, endRow) ==
    [ id |-> id, file_path |-> filePath, name |-> name, kind |-> kind,
      start_line |-> startRow, end_line |-> endRow ]

RelationRow(fromId, toId, type) ==
    [ from_id |-> fromId, to_id |-> toId, type |-> type, count |-> 1 ]

DefinitionTypes == { "function_definition", "class_definition" }

\* node.type.includes('class') ? 'class' : 'function'
KindOf(type) == IF type = "class_definition" THEN "class" ELSE "function"

\* does the node push a scope (pushedScope = true)
PushesScope(node) ==
    /\ node.type \in DefinitionTypes
    /\ childForFieldName(node, "name") # <<>>

\* variant: a definition without a name is a symbol with the empty name
collectSymbolAnonymous(filePath, node, acc) ==
    IF node.type \in DefinitionTypes
    THEN LET nameNode == childForFieldName(node, "name")
             name == IF nameNode = <<>> THEN <<>> ELSE nameNode[1].text
             currentId == generateId(filePath, name)
             parentId == Top(acc.scopeStack)
         IN [ acc EXCEPT
                !.symbolRows = Append(@, SymbolRow(currentId, filePath, name,
                                   KindOf(node.type), node.startRow, node.endRow)),
                !.relations = Append(@, RelationRow(parentId, currentId, "contains")),
                !.scopeStack = Append(@, currentId),
                !.pushes = @ + 1 ]
    ELSE acc

\* variant: the parent is read after the push
collectSymbolParentAfterPush(filePath, node, acc) ==
    IF PushesScope(node)
    THEN LET name == childForFieldName(node, "name")[1].text
             currentId == generateId(filePath, name)
             pushed == Append(acc.scopeStack, currentId)
         IN [ acc EXCEPT
                !.symbolRows = Append(@, SymbolRow(currentId, filePath, name,
                                   KindOf(node.type), node.startRow, node.endRow)),
                !.relations = Append(@, RelationRow(Top(pushed), currentId, "contains")),
                !.scopeStack = pushed,
                !.pushes = @ + 1 ]
    ELSE acc

\* 1. Symbol & Contains Edge
collectSymbol(filePath, node, acc) ==
    IF PushesScope(node)
    THEN LET name == childForFieldName(node, "name")[1].text
             currentId == generateId(filePath, name)
             parentId == Top(acc.scopeStack)
         IN [ acc EXCEPT
                !.symbolRows = Append(@, SymbolRow(currentId, filePath, name,
                                   KindOf(node.type), node.startRow, node.endRow)),
                !.relations = Append(@, RelationRow(parentId, currentId, "contains")),
                !.scopeStack = Append(@, currentId),
                !.pushes = @ + 1 ]
    ELSE acc

\* 2. Import Edge
collectImports(filePath, node, acc) ==
    IF node.type = "import_statement"
    THEN LET mods == SelectSeq(node.children, LAMBDA c : c.type = "dotted_name")
         IN [ acc EXCEPT !.relations =
                @ \o [ i \in 1..Len(mods) |-> RelationRow(filePath, mods[i].text, "import") ] ]
    ELSE IF node.type = "import_from_statement"
    THEN LET mods == SelectSeq(node.children,
                         LAMBDA c : c.type = "dotted_name" \/ c.type = "identifier")
         IN IF mods = <<>> THEN acc
            ELSE [ acc EXCEPT !.relations =
                     Append(@, RelationRow(filePath, mods[1].text, "import")) ]
    ELSE acc

\* variant: a call emitted again in a pass carries the number of its
\* emissions
collectCallCounting(node, acc) ==
    IF node.type = "call_expression" \/ node.type = "call"
    THEN LET funcNode == childForFieldName(node, "function")
             row == RelationRow(Top(acc.scopeStack), funcNode[1].text, "call")
             emitted == { i \in 1..Len(acc.relations) :
                            /\ acc.relations[i].from_id = row.from_id
                            /\ acc.relations[i].to_id = row.to_id
                            /\ acc.relations[i].type = row.type }
         IN IF funcNode = <<>> THEN acc
            ELSE [ acc EXCEPT !.relations =
                     Append(@, [ row EXCEPT !.count = 1 + Cardinality(emitted) ]) ]
    ELSE acc

\* 3. Call Edge
collectCall(node, acc) ==
    IF node.type = "call_expression" \/ node.type = "call"
    THEN LET funcNode == childForFieldName(node, "function")
         IN IF funcNode = <<>> THEN acc
            ELSE [ acc EXCEPT !.relations =
                     Append(@, RelationRow(Top(acc.scopeStack), funcNode[1].text, "call")) ]
    ELSE acc

\* variant: the scope stays pushed when the node is left
leaveNodeNoPop(node, acc) == acc

\* variant: the scope is popped after every definition node, named or not
leaveNodePopAnyDefinition(node, acc) ==
    IF node.type \in DefinitionTypes
    THEN [ acc EXCEPT !.scopeStack = Pop(@), !.pops = @ + 1,
                      !.low = Min(@, Len(acc.scopeStack) - 1) ]
    ELSE acc

\* if (pushedScope) scopeStack.pop()
leaveNode(node, acc) ==
    IF PushesScope(node)
    THEN [ acc EXCEPT !.scopeStack = Pop(@), !.pops = @ + 1,
                      !.low = Min(@, Len(acc.scopeStack) - 1) ]
    ELSE acc

RECURSIVE traverseAndCollect(_, _, _)
RECURSIVE traverseChildren(_, _, _, _)

\* for (let i = 0; i < node.childCount; i++) traverseAndCollect(node.child(i))
traverseChildren(filePath, children, i, acc) ==
    IF i > Len(children) THEN acc
    ELSE LET visited == traverseAndCollect(filePath, children[i], acc)
         IN \* the call for child i returns before child i + 1 is visited
            IF visited.pops >= 0
            THEN traverseChildren(filePath, children, i + 1, visited)
            ELSE visited

\* const traverseAndCollect = (node) => { ... }
traverseAndCollect(filePath, node, acc) ==
    LET a1 == collectSymbol(filePath, node, acc)
        a2 == collectImports(filePath, node, a1)
        a3 == collectCall(node, a2)
        a4 == traverseChildren(filePath, node.children, 1, a3)
    IN leaveNode(node, a4)


(***************************************************************************)
(* Inputs: file paths, names and syntax trees.                             *)
(***************************************************************************)
PathA == << "a", ".", "p", "y" >>
PathB == << "b", ".", "p", "y" >>
PathN == << "n", ".", "t", "x", "t" >>
Paths == { PathA, PathB, PathN }

Ident(text, field) == Node("identifier", text, field, 0, 0, <<>>)

\* a class or function definition with a name child and a body
Def(type, name, startRow, endRow, body) ==
    Node(type, <<>>, "", startRow, endRow, << Ident(name, "name") >> \o body)

\* a definition node that has no name child
AnonDef(type, startRow, endRow, body) == Node(type, <<>>, "", startRow, endRow, body)

\* a call whose function child has the given text
Call(fnText, row) ==
    Node("call", <<>>, "", row, row, << Node("attribute", fnText, "function", row, row, <<>>) >>)

\* import m1, m2, ...
Import(mods, row) ==
    Node("import_statement", <<>>, "", row, row,
         [ i \in 1..Len(mods) |-> Node("dotted_name", mods[i], "name", row, row, <<>>) ])

\* from mod import name
ImportFrom(mod, name, row) ==
    Node("import_from_statement", <<>>, "", row, row,
         << Node("dotted_name", mod, "module_name", row, row, <<>>),
            Node("dotted_name", name, "name", row, row, <<>>) >>)

Module(body) == Node("module", <<>>, "", 0, 0, body)

\* import a / class g: def f(): g() / def a(): x.f(); h(); a()
TreeBasic ==
    Module(<< Import(<< << "a" >> >>, 0),
              Def("class_definition", << "g" >>, 1, 3,
                  << Def("function_definition", << "f" >>, 2, 3, << Call(<< "g" >>, 3) >>) >>),
              Def("function_definition", << "a" >>, 4, 6,
                  << Call(<< "x", ".", "f" >>, 5), Call(<< "h" >>, 5), Call(<< "a" >>, 6) >>) >>)

\* def f(): a() / class f: <definition without a name>: f(); f()
TreeTwice ==
    Module(<< Def("function_definition", << "f" >>, 0, 1, << Call(<< "a" >>, 1) >>),
              Def("class_definition", << "f" >>, 2, 5,
                  << AnonDef("function_definition", 3, 5,
                             << Call(<< "f" >>, 4), Call(<< "f" >>, 5) >>) >>) >>)

\* from b import g / def g(): x.constructor()
TreeProtoCall ==
    Module(<< ImportFrom(<< "b" >>, << "g" >>, 0),
              Def("function_definition", << "g" >>, 1, 2, << Call(<< "x", ".", "c", "o", "n", "s", "t", "r", "u", "c", "t", "o", "r" >>, 2) >>) >>)

\* def constructor(): pass
TreeProtoName ==
    Module(<< Def("function_definition", << "c", "o", "n", "s", "t", "r", "u", "c", "t", "o", "r" >>, 0, 1, <<>>) >>)

\* the file of debug-cli.ts: 'src/test_sample.py'
PathRef == << "s", "r", "c", "/", "t", "e", "s", "t", "_", "s", "a", "m", "p", "l", "e", ".", "p", "y" >>

NameUser == << "U", "s", "e", "r" >>
NameInit == << "_", "_", "i", "n", "i", "t", "_", "_" >>
NameGreet == << "g", "r", "e", "e", "t" >>
NameMain == << "m", "a", "i", "n" >>

Block(startRow, endRow, body) == Node("block", <<>>, "body", startRow, endRow, body)

\* the content of debug-cli.ts as tree-sitter-python parses it (rows from
\* 0, the text starts with an empty line): import os / import sys /
\* class User: __init__, greet (print(...)) / def main(): User(...),
\* u.greet(), os.getcwd()
TreeReference ==
    Module(<< Import(<< << "o", "s" >> >>, 1),
              Import(<< << "s", "y", "s" >> >>, 2),
              Def("class_definition", NameUser, 4, 9,
                  << Block(5, 9,
                       << Def("function_definition", NameInit, 5, 6, << Block(6, 6, <<>>) >>),
                          Def("function_definition", NameGreet, 8, 9,
                              << Block(9, 9, << Call(<< "p", "r", "i", "n", "t" >>, 9) >>) >>) >>) >>),
              Def("function_definition", NameMain, 11, 14,
                  << Block(12, 14,
                       << Call(NameUser, 12),
                          Call(<< "u", ".", "g", "r", "e", "e", "t" >>, 13),
                          Call(<< "o", "s", ".", "g", "e", "t", "c", "w", "d" >>, 14) >>) >>) >>)

\* f()
TreeCallOnly == Module(<< Call(<< "f" >>, 0) >>)

\* def f(): pass / f()
TreeDefAndCall ==
    Module(<< Def("function_definition", << "f" >>, 0, 1, <<>>), Call(<< "f" >>, 2) >>)

\* file names that hold the text '-call-': 'b.py-call-a.py' and
\* 'a.py-call-b.py-call-a.py'
PathBA == PathB \o DashCall \o PathA
PathABA == PathA \o DashCall \o PathBA

\* the files of a workspace with such names
DashPaths == { PathA, PathB, PathBA, PathABA }

\* the file contents indexed, by number
Corpus ==
    << TreeBasic, TreeTwice, TreeProtoCall, TreeProtoName, TreeReference,
       TreeCallOnly, TreeDefAndCall >>

\* the contents indexed under the names that hold '-call-'
DashCorpus == { ci \in 1..Len(Corpus) : Corpus[ci] \in { TreeCallOnly, TreeDefAndCall } }

\* the contents indexed where calls may fail
SmallCorpus == { ci \in 1..Len(Corpus) : Corpus[ci] \in { TreeBasic, TreeTwice } }

WithChildren(node, sub) == [ node EXCEPT !.children = @ \o sub ]

\* the node shapes of the generated trees
Shapes ==
    { Def("function_definition", << "f" >>, 0, 0, <<>>),
      Def("class_definition", << "g" >>, 0, 0, <<>>),
      AnonDef("class_definition", 0, 0, <<>>),
      Call(<< "g" >>, 0),
      Import(<< << "g" >>, << "f" >> >>, 0),
      Node("block", <<>>, "", 0, 0, <<>>) }

\* the forests of n nodes, from the forests of fewer nodes:
\* smaller[m + 1] holds the forests of m nodes, for m < n
LargerForests(smaller) ==
    LET n == Len(smaller)
    IN UNION { { << WithChildren(shape, sub) >> \o rest :
                    shape \in Shapes, sub \in smaller[k], rest \in smaller[n - k + 1] } :
               k \in 1..n }

RECURSIVE ForestsUpTo(_)
\* << the forests of 0 nodes, ..., the forests of n nodes >>
ForestsUpTo(n) ==
    IF n = 0 THEN << { <<>> } >>
    ELSE LET smaller == ForestsUpTo(n - 1)
         IN Append(smaller, LargerForests(smaller))

\* the modules of at most max nodes below the root
GeneratedTrees(max) ==
    LET forests == ForestsUpTo(max)
    IN UNION { { Module(f) : f \in forests[n + 1] } : n \in 0..max }

(***************************************************************************)
(* The fact store (CozoDb): three stored relations, declared by :create    *)
(* and written by :put.  handle = 0 stands for this.db being undefined,    *)
(* handle = 1 for a database made by CozoDb.new().                         *)
(***************************************************************************)
NoDb ==
    [ handle |-> 0, declared |-> {}, files |-> {}, symbols |-> {}, relations |-> {} ]

\* CozoDb.new()
NewDb == [ NoDb EXCEPT !.handle = 1 ]

\* the schemas array of init, in order
Schemas == << "files", "symbols", "relations" >>

\* the key columns of each relation (the columns before '=>')
KeyOf(rel, row) ==
    CASE rel = "files" -> << row.path >>
      [] rel = "symbols" -> << row.id >>
      [] rel = "relations" -> << row.from_id, row.to_id, row.type >>

\* variant: a row written again adds its count to the stored one
PutRowAccumulate(rel, table, row) ==
    LET old == { r \in table : KeyOf(rel, r) = KeyOf(rel, row) }
    IN IF rel = "relations" /\ old # {}
       THEN (table \ old) \cup { [ row EXCEPT !.count = @ + (CHOOSE r \in old : TRUE).count ] }
       ELSE (table \ old) \cup { row }

\* :put of one row: create it, or replace the row that has its key
PutRow(rel, table, row) ==
    { r \in table : KeyOf(rel, r) # KeyOf(rel, row) } \cup { row }

RECURSIVE PutFrom(_, _, _, _)
PutFrom(rel, table, rows, i) ==
    IF i > Len(rows) THEN table
    ELSE PutFrom(rel, PutRow(rel, table, rows[i]), rows, i + 1)

TypeRank(type) ==
    CASE type = "call" -> 1 [] type = "contains" -> 2 [] type = "import" -> 3

KindRank(kind) ==
    CASE kind = "class" -> 1 [] kind = "function" -> 2

\* the order of the engine on the rows of a relation: column by column,
\* strings by their characters, numbers by their value
TupleBefore(rel, a, b) ==
    CASE rel = "files" ->
            IF a.path # b.path THEN StrLess(a.path, b.path)
            ELSE a.last_modified < b.last_modified
      [] rel = "symbols" ->
            IF a.id # b.id THEN StrLess(a.id, b.id)
            ELSE IF a.file_path # b.file_path THEN StrLess(a.file_path, b.file_path)
            ELSE IF a.name # b.name THEN StrLess(a.name, b.name)
            ELSE IF a.kind # b.kind THEN KindRank(a.kind) < KindRank(b.kind)
            ELSE IF a.start_line # b.start_line THEN a.start_line < b.start_line
            ELSE a.end_line < b.end_line
      [] rel = "relations" ->
            IF a.from_id # b.from_id THEN StrLess(a.from_id, b.from_id)
            ELSE IF a.to_id # b.to_id THEN StrLess(a.to_id, b.to_id)
            ELSE IF a.type # b.type THEN TypeRank(a.type) < TypeRank(b.type)
            ELSE a.count < b.count

RECURSIVE Ascending(_, _)
\* a set of rows as the engine goes through it: in ascending order
Ascending(rel, rows) ==
    IF rows = {} THEN <<>>
    ELSE LET first == CHOOSE a \in rows : \A b \in rows \ { a } : TupleBefore(rel, a, b)
         IN << first >> \o Ascending(rel, rows \ { first })

\* ?[...] <- [rows] :put rel.  The rows of the rule are a relation: a set,
\* which the engine puts row by row in its own order (the order in which
\* it returns the rows of a read), not in the order of the array.
PutRows(rel, table, rows) ==
    PutFrom(rel, table, Ascending(rel, { rows[i] : i \in 1..Len(rows) }), 1)

Table(d, rel) ==
    CASE rel = "files" -> d.files
      [] rel = "symbols" -> d.symbols
      [] rel = "relations" -> d.relations

WithTable(d, rel, table) ==
    CASE rel = "files" -> [ d EXCEPT !.files = table ]
      [] rel = "symbols" -> [ d EXCEPT !.symbols = table ]
      [] rel = "relations" -> [ d EXCEPT !.relations = table ]

\* db.run of a write statement [op, rel, rows].  accept is the engine's
\* own verdict on the statement (a malformed or failing statement is
\* answered with ok = false); a relation that exists cannot be created
\* again and a relation that does not exist cannot be written.
dbRun(d, stmt, accept) ==
    IF stmt.op = "create"
    THEN IF accept /\ stmt.rel \notin d.declared
         THEN [ ok |-> TRUE, db |-> [ d EXCEPT !.declared = @ \cup { stmt.rel } ] ]
         ELSE [ ok |-> FALSE, db |-> d ]
    ELSE IF accept /\ stmt.rel \in d.declared
         THEN [ ok |-> TRUE,
                db |-> WithTable(d, stmt.rel, PutRows(stmt.rel, Table(d, stmt.rel), stmt.rows)) ]
         ELSE [ ok |-> FALSE, db |-> d ]

CreateStmt(rel) == [ op |-> "create", rel |-> rel, rows |-> <<>> ]
PutStmt(rel, rows) == [ op |-> "put", rel |-> rel, rows |-> rows ]

\* variant: the answer of the engine is not looked at
runCommandUnchecked(d, stmt, accept) ==
    IF d.handle = 0
    THEN [ threw |-> TRUE, db |-> d, engine |-> FALSE ]
    ELSE [ threw |-> FALSE, db |-> dbRun(d, stmt, accept).db, engine |-> TRUE ]

\* private async runCommand(query): throws when there is no database or
\* when the engine answers ok = false; engine tells whether db.run ran
runCommand(d, stmt, accept) ==
    IF d.handle = 0
    THEN [ threw |-> TRUE, db |-> d, engine |-> FALSE ]
    ELSE LET result == dbRun(d, stmt, accept)
         IN [ threw |-> ~result.ok, db |-> result.db, engine |-> TRUE ]

(***************************************************************************)
(* processFile: the body of its try block, as a function of the store.     *)
(***************************************************************************)
\* the points at which one call can fail: the parse, or the engine
\* answering one of the three :put statements with ok = false
FailPoints == { "none", "parse", "files", "symbols", "relations" }

FileRow(filePath, langKey, lastModified) ==
    [ path |-> filePath, language |-> langKey, last_modified |-> lastModified ]

\* traverseAndCollect(tree.rootNode) on the arrays and the stack of a call
ExtractPass(filePath, tree) == traverseAndCollect(filePath, tree, NewCollect(filePath))

\* the passes over the contents of the corpus, computed once
ExtractTable ==
    [ filePath \in Paths \cup { PathRef } \cup DashPaths, ci \in 1..Len(Corpus) |->
          ExtractPass(filePath, Corpus[ci]) ]

\* what one pass derives from a tree
Extract(filePath, tree) ==
    IF \E ci \in 1..Len(Corpus) : Corpus[ci] = tree
    THEN ExtractTable[filePath, CHOOSE ci \in 1..Len(Corpus) : Corpus[ci] = tree]
    ELSE ExtractPass(filePath, tree)

\* can the call fail at that point (is the statement sent at all)
CanFailAt(fail, filePath, tree) ==
    CASE fail = "symbols" -> Extract(filePath, tree).symbolRows # <<>>
      [] fail = "relations" -> Extract(filePath, tree).relations # <<>>
      [] OTHER -> TRUE

\* variant: the relations are sent before the symbols
processFileTryRelationsFirst(d, filePath, tree, lastModified, fail) ==
    IF fail = "parse"
    THEN [ threw |-> TRUE, db |-> d, engine |-> FALSE ]
    ELSE LET acc == Extract(filePath, tree)
             fileRows == << FileRow(filePath, "python", lastModified) >>
             r1 == runCommand(d, PutStmt("files", fileRows), fail # "files")
             r2 == IF r1.threw \/ acc.relations = <<>> THEN r1
                   ELSE runCommand(r1.db, PutStmt("relations", acc.relations), fail # "relations")
             r3 == IF r2.threw \/ acc.symbolRows = <<>> THEN r2
                   ELSE runCommand(r2.db, PutStmt("symbols", acc.symbolRows), fail # "symbols")
         IN [ r3 EXCEPT !.engine = r1.engine ]

\* try { parse; traverse; put files; put symbols; put relations }
\* threw: an exception left the block; engine: db.run was reached
processFileTry(d, filePath, tree, lastModified, fail) ==
    IF fail = "parse"
    THEN [ threw |-> TRUE, db |-> d, engine |-> FALSE ]
    ELSE LET acc == Extract(filePath, tree)
             fileRows == << FileRow(filePath, "python", lastModified) >>
             r1 == runCommand(d, PutStmt("files", fileRows), fail # "files")
             r2 == IF r1.threw \/ acc.symbolRows = <<>> THEN r1
                   ELSE runCommand(r1.db, PutStmt("symbols", acc.symbolRows), fail # "symbols")
             r3 == IF r2.threw \/ acc.relations = <<>> THEN r2
                   ELSE runCommand(r2.db, PutStmt("relations", acc.relations), fail # "relations")
         IN [ r3 EXCEPT !.engine = r1.engine ]

(***************************************************************************)
(* query: the engine's answer to a read, and the wrapper around it.        *)
(* A result is {ok, rows}; hasRows tells whether the rows field is there.  *)
(***************************************************************************)
\* the expressions the callers of the repository ask: a stored relation
\* (main.ts, the tree provider, getNetwork) or a text that is no query
ReadExprs == { "symbols", "malformed" }

\* any expression: query hands its text to db.run, which runs a script
\* that writes as it runs one that reads
QueryExprs == ReadExprs \cup { "put" }

\* ?[path, language, last_modified] <- [['b.py', 'python', 0]] :put files
WriteStmt == PutStmt("files", << FileRow(<< "b", ".", "p", "y" >>, "python", 0) >>)

\* the order in which the engine returns rows: ascending, column by column
RowLess(q, a, b) ==
    IF a[1] # b[1] THEN StrLess(a[1], b[1])
    ELSE IF q = "relations"
         THEN IF a[2] # b[2] THEN StrLess(a[2], b[2])
              ELSE TypeRank(a[3]) < TypeRank(b[3])
         ELSE FALSE

RECURSIVE SortRows(_, _)
SortRows(q, rows) ==
    IF rows = {} THEN <<>>
    ELSE LET first == CHOOSE a \in rows : \A b \in rows \ { a } : RowLess(q, a, b)
         IN << first >> \o SortRows(q, rows \ { first })

\* the rows each expression selects
QueryRows(d, q) ==
    CASE q = "files" -> { << r.path, "file", r.path >> : r \in d.files }
      [] q = "symbols" -> { << r.id, r.kind, r.name, r.file_path >> : r \in d.symbols }
      [] q = "relations" -> { << r.from_id, r.to_id, r.type >> : r \in d.relations }

\* JSON.parse(await db.run(datalog, "{}")): the rows of a read, the
\* status row of a write, or the engine's error object (no rows field)
dbQuery(d, q) ==
    IF q \in d.declared
    THEN [ ok |-> TRUE, rows |-> SortRows(q, QueryRows(d, q)), hasRows |-> TRUE ]
    ELSE IF q = "put" /\ dbRun(d, WriteStmt, TRUE).ok
    THEN [ ok |-> TRUE, rows |-> << << << "O", "K" >> >> >>, hasRows |-> TRUE ]
    ELSE [ ok |-> FALSE, rows |-> <<>>, hasRows |-> FALSE ]

\* the database after db.run(datalog, "{}")
dbQueryEffect(d, q) ==
    IF q = "put" THEN dbRun(d, WriteStmt, TRUE).db ELSE d

NotReadyResult == [ ok |-> FALSE, rows |-> <<>>, hasRows |-> TRUE ]

\* async query(datalog)
query(ready, d, q) ==
    IF ~ready \/ d.handle = 0 THEN NotReadyResult ELSE dbQuery(d, q)

\* the database after query(datalog)
queryEffect(ready, d, q) ==
    IF ~ready \/ d.handle = 0 THEN d ELSE dbQueryEffect(d, q)

(***************************************************************************)
(* getNetwork: the name index and the resolution of the relations.         *)
(* nameToIds is a plain object: a name that it does not own is looked up   *)
(* in Object.prototype.                                                    *)
(***************************************************************************)
ObjectPrototypeKeys ==
    { << "c", "o", "n", "s", "t", "r", "u", "c", "t", "o", "r" >>,
      << "h", "a", "s", "O", "w", "n", "P", "r", "o", "p", "e", "r", "t", "y" >>,
      << "i", "s", "P", "r", "o", "t", "o", "t", "y", "p", "e", "O", "f" >>,
      << "p", "r", "o", "p", "e", "r", "t", "y", "I", "s", "E", "n", "u", "m", "e", "r", "a", "b", "l", "e" >>,
      << "t", "o", "L", "o", "c", "a", "l", "e", "S", "t", "r", "i", "n", "g" >>,
      << "t", "o", "S", "t", "r", "i", "n", "g" >>,
      << "v", "a", "l", "u", "e", "O", "f" >>,
      << "_", "_", "p", "r", "o", "t", "o", "_", "_" >>,
      << "_", "_", "d", "e", "f", "i", "n", "e", "G", "e", "t", "t", "e", "r", "_", "_" >>,
      << "_", "_", "d", "e", "f", "i", "n", "e", "S", "e", "t", "t", "e", "r", "_", "_" >>,
      << "_", "_", "l", "o", "o", "k", "u", "p", "G", "e", "t", "t", "e", "r", "_", "_" >>,
      << "_", "_", "l", "o", "o", "k", "u", "p", "S", "e", "t", "t", "e", "r", "_", "_" >> }

\* nameToIds[name]: << "array", candidates >> for an own entry,
\* << "inherited" >> for a property of Object.prototype (truthy, and no
\* array), << "undefined" >> otherwise
Lookup(own, name) ==
    IF name \in DOMAIN own THEN << "array", own[name] >>
    ELSE IF name \in ObjectPrototypeKeys THEN << "inherited" >>
    ELSE << "undefined" >>

EmptyIndex == [ nodes |-> <<>>, valid |-> {}, own |-> << >>, threw |-> FALSE ]

Candidate(id, file) == [ id |-> id, file |-> file ]

\* const addToIndex = (name, id, file) => { ... }
\* pushing onto an inherited property is a TypeError
addToIndex(ix, name, id, file) ==
    LET found == Lookup(ix.own, name)
    IN CASE found[1] = "undefined" ->
              [ ix EXCEPT !.own = [ n \in DOMAIN ix.own \cup { name } |->
                    IF n = name THEN << Candidate(id, file) >> ELSE ix.own[n] ] ]
         [] found[1] = "array" ->
              [ ix EXCEPT !.own = [ n \in DOMAIN ix.own |->
                    IF n = name THEN Append(ix.own[n], Candidate(id, file)) ELSE ix.own[n] ] ]
         [] found[1] = "inherited" -> [ ix EXCEPT !.threw = TRUE ]

NodeOf(id, kind, label) == [ id |-> id, kind |-> kind, label |-> label ]

RECURSIVE indexFiles(_, _, _)
\* files.rows.forEach(row => { nodes.push; validNodeIds.add; addToIndex })
indexFiles(ix, rows, i) ==
    IF i > Len(rows) \/ ix.threw THEN ix
    ELSE LET id == rows[i][1]
             added == [ ix EXCEPT !.nodes = Append(@, NodeOf(id, rows[i][2], rows[i][3])),
                                  !.valid = @ \cup { id } ]
         IN indexFiles(addToIndex(added, basename(id, extname(id)), id, id), rows, i + 1)

RECURSIVE indexSymbols(_, _, _)
\* symbols.rows.forEach(row => { nodes.push; validNodeIds.add; addToIndex })
indexSymbols(ix, rows, i) ==
    IF i > Len(rows) \/ ix.threw THEN ix
    ELSE LET id == rows[i][1]
             added == [ ix EXCEPT !.nodes = Append(@, NodeOf(id, rows[i][2], rows[i][3])),
                                  !.valid = @ \cup { id } ]
         IN indexSymbols(addToIndex(added, rows[i][3], id, rows[i][4]), rows, i + 1)

EdgeOf(id, source, target, type) ==
    [ id |-> id, source |-> source, target |-> target, type |-> type ]

\* edges.find(e => e.data.id === edgeId)
HasEdge(edges, edgeId) == \E i \in 1..Len(edges) : edges[i].id = edgeId

\* variant: the raw target is looked up as it is
targetNameWhole(rawTarget) == rawTarget

\* rawTarget.split('.').pop() || rawTarget
targetNameOf(rawTarget) ==
    LET lastPart == SplitLast(rawTarget, ".")
    IN IF lastPart = <<>> THEN rawTarget ELSE lastPart

\* sourceId.includes(':') ? sourceId.split(':')[0] : sourceId
sourceFileOf(sourceId) ==
    IF Includes(sourceId, ":") THEN SplitFirst(sourceId, ":") ELSE sourceId

\* bestMatch ? bestMatch.id : candidates[0].id
pickCall(candidates, sourceFile) ==
    LET same == { i \in 1..Len(candidates) : candidates[i].file = sourceFile }
    IN IF same = {} THEN candidates[1].id
       ELSE candidates[CHOOSE i \in same : \A j \in same : i <= j].id

\* type === 'contains'
resolveContains(ix, ex, sourceId, rawTarget) ==
    IF sourceId \in ix.valid /\ rawTarget \in ix.valid
    THEN [ ex EXCEPT !.edges =
             Append(@, EdgeOf(sourceId \o DashContains \o rawTarget, sourceId, rawTarget, "contains")) ]
    ELSE ex

\* variant: a target that matches no name is linked as written
resolveCallKeepRaw(ix, ex, sourceId, rawTarget) ==
    LET found == Lookup(ix.own, targetNameOf(rawTarget))
        targetId == IF found[1] = "array"
                    THEN pickCall(found[2], sourceFileOf(sourceId))
                    ELSE rawTarget
        edgeId == sourceId \o DashCall \o targetId
    IN IF HasEdge(ex.edges, edgeId) THEN ex
       ELSE [ ex EXCEPT !.edges = Append(@, EdgeOf(edgeId, sourceId, targetId, "call")) ]

\* type === 'call'; candidates.find on an inherited property is a TypeError
resolveCall(ix, ex, sourceId, rawTarget) ==
    LET found == Lookup(ix.own, targetNameOf(rawTarget))
    IN CASE found[1] = "undefined" -> ex
         [] found[1] = "inherited" -> [ ex EXCEPT !.threw = TRUE ]
         [] found[1] = "array" ->
              LET targetId == pickCall(found[2], sourceFileOf(sourceId))
                  edgeId == sourceId \o DashCall \o targetId
              IN IF HasEdge(ex.edges, edgeId) THEN ex
                 ELSE [ ex EXCEPT !.edges = Append(@, EdgeOf(edgeId, sourceId, targetId, "call")) ]

\* type === 'import'; candidates[0].id on an inherited property is a
\* TypeError (candidates[0] is undefined)
resolveImport(ix, ex, sourceId, rawTarget) ==
    LET found == Lookup(ix.own, targetNameOf(rawTarget))
    IN CASE found[1] = "undefined" -> ex
         [] found[1] = "inherited" -> [ ex EXCEPT !.threw = TRUE ]
         [] found[1] = "array" ->
              LET targetId == found[2][1].id
                  edgeId == sourceId \o DashImport \o targetId
              IN IF HasEdge(ex.edges, edgeId) THEN ex
                 ELSE [ ex EXCEPT !.edges = Append(@, EdgeOf(edgeId, sourceId, targetId, "import")) ]

RECURSIVE resolveRelations(_, _, _, _)
\* relations.rows.forEach(row => { ... })
resolveRelations(ix, ex, rows, i) ==
    IF i > Len(rows) \/ ex.threw THEN ex
    ELSE LET sourceId == rows[i][1]
             rawTarget == rows[i][2]
             type == rows[i][3]
             next == CASE type = "contains" -> resolveContains(ix, ex, sourceId, rawTarget)
                       [] type = "call" -> resolveCall(ix, ex, sourceId, rawTarget)
                       [] type = "import" -> resolveImport(ix, ex, sourceId, rawTarget)
                       [] OTHER -> ex
         IN resolveRelations(ix, next, rows, i + 1)

EmptyNetwork == [ nodes |-> <<>>, edges |-> <<>> ]

\* the try block of getNetwork after its three reads; threw: an exception
\* reached its catch
getNetworkFrom(files, symbols, relations) ==
    LET ix1 == IF files.ok /\ files.hasRows
               THEN indexFiles(EmptyIndex, files.rows, 1) ELSE EmptyIndex
        ix2 == IF symbols.ok /\ symbols.hasRows
               THEN indexSymbols(ix1, symbols.rows, 1) ELSE ix1
        ex == IF relations.ok /\ relations.hasRows
              THEN resolveRelations(ix2, [ edges |-> <<>>, threw |-> ix2.threw ],
                                    relations.rows, 1)
              ELSE [ edges |-> <<>>, threw |-> ix2.threw ]
    IN [ nodes |-> ix2.nodes, edges |-> ex.edges, threw |-> ex.threw ]

\* the try block of getNetwork when nothing runs between its reads
getNetworkTry(d) ==
    getNetworkFrom(query(TRUE, d, "files"), query(TRUE, d, "symbols"),
                   query(TRUE, d, "relations"))

\* async getNetwork()
getNetwork(ready, d) ==
    IF ~ready \/ d.handle = 0 THEN EmptyNetwork
    ELSE LET got == getNetworkTry(d)
         IN IF got.threw THEN EmptyNetwork
            ELSE [ nodes |-> got.nodes, edges |-> got.edges ]

\* variant: the edges resolved are written to the store as relations
getNetworkEffectStoreEdges(ready, d) ==
    IF ~ready \/ d.handle = 0 THEN d
    ELSE LET edges == getNetwork(ready, d).edges
         IN [ d EXCEPT !.relations =
                PutRows("relations", @,
                        [ i \in 1..Len(edges) |->
                            RelationRow(edges[i].source, edges[i].target, edges[i].type) ]) ]

\* the database after getNetwork(): after its three calls of this.query
getNetworkEffect(ready, d) ==
    IF ~ready \/ d.handle = 0 THEN d
    ELSE queryEffect(ready, queryEffect(ready, queryEffect(ready, d, "files"), "symbols"),
                     "relations")

(***************************************************************************)
(* State.                                                                  *)
(***************************************************************************)
VARIABLES
    isInitialized,  \* this.isInitialized
    db,             \* this.db and the contents of that database
    parser,         \* this.parser is set
    languages,      \* the keys of this.languages
    initPc,         \* where the init call in flight is suspended
    initDone,       \* an init call has run to its end (observation)
    hist,           \* the processFile calls that got past the guards
    last,           \* the last call that returned, and what it returned
    ext,            \* input and result of one extraction (SpecExtract)
    flight,         \* the processFile calls suspended at an await (SpecConcurrent)
    reading,        \* the getNetwork call suspended at an await (SpecOverlap)
    waiting,        \* where a second init call in flight is suspended (SpecInits)
    caller          \* input and result of one derivation of the caller's file (SpecCaller)

vars ==
    << isInitialized, db, parser, languages, initPc, initDone, hist, last, ext, flight,
       reading, waiting, caller >>

Idle == [ at |-> "idle", k |-> 0, ok |-> TRUE ]

NoLast ==
    [ op |-> "none", ready |-> FALSE, changed |-> FALSE, factsChanged |-> FALSE,
      engine |-> FALSE, threw |-> FALSE, failed |-> FALSE, logged |-> FALSE,
      net |-> EmptyNetwork, res |-> NotReadyResult ]

\* the two callers whose processFile calls overlap
Slots == { 1, 2 }

\* a call: where it is suspended, its arguments, its place in the order
\* of the calls, where the other call was when it started, whether the
\* statement it awaits was answered with ok = false
NoCall ==
    [ pc |-> "idle", path |-> <<>>, content |-> 0, fail |-> "none", order |-> 0,
      during |-> "idle", threw |-> FALSE ]

NoFlight == [ slot \in Slots |-> NoCall ]

\* a getNetwork call: the await at which it is suspended and the results
\* it holds
NoReading ==
    [ pc |-> "idle", files |-> NotReadyResult, symbols |-> NotReadyResult,
      relations |-> NotReadyResult ]

\* one derivation: the path and the name of a caller, and the files that
\* getNetwork takes for the caller's file
NoCaller ==
    [ phase |-> "idle", filePath |-> <<>>, name |-> <<>>, ofPath |-> <<>>, ofId |-> <<>> ]

NoExt == [ phase |-> "idle", filePath |-> <<>>, root |-> Module(<<>>), out |-> NewCollect(<<>>) ]

\* the state after new CodeGraph(wasmDir)
InitGraph ==
    /\ isInitialized = FALSE
    /\ db = NoDb
    /\ parser = FALSE
    /\ languages = {}
    /\ initPc = Idle
    /\ initDone = FALSE
    /\ hist = <<>>
    /\ last = NoLast
    /\ flight = NoFlight
    /\ reading = NoReading
    /\ waiting = Idle

Init == InitGraph /\ ext = NoExt /\ caller = NoCaller

(***************************************************************************)
(* init, one step per await.                                               *)
(***************************************************************************)
\* catch (error) { this.isInitialized = false }
initCatch ==
    /\ isInitialized' = FALSE
    /\ initPc' = Idle
    /\ last' = [ NoLast EXCEPT !.op = "init", !.ready = initDone ]

\* variant: init does not look at the flag
alreadyInitializedIgnored(flag) == FALSE

\* if (this.isInitialized) { return; }
alreadyInitialized(flag) == flag

\* async init(): the guard, and the call of Parser.init
init ==
    /\ initPc.at = "idle"
    /\ IF alreadyInitialized(isInitialized)
       THEN /\ last' = [ NoLast EXCEPT !.op = "init", !.ready = initDone ]
            /\ UNCHANGED initPc
       ELSE /\ initPc' = [ at |-> "ParserInit", k |-> 0, ok |-> TRUE ]
            /\ UNCHANGED last
    /\ UNCHANGED << isInitialized, db, parser, languages, initDone, hist, ext, flight, reading, waiting, caller >>

\* await Parser.init(...); this.parser = new Parser()
initParserInit(ok) ==
    /\ initPc.at = "ParserInit"
    /\ IF ok
       THEN /\ parser' = TRUE
            /\ initPc' = [ initPc EXCEPT !.at = "LoadPython" ]
            /\ UNCHANGED << isInitialized, last >>
       ELSE initCatch /\ UNCHANGED parser
    /\ UNCHANGED << db, languages, initDone, hist, ext, flight, reading, waiting, caller >>

\* this.languages['python'] = await Language.load(pyFile)
initLoadPython(ok, tsExists) ==
    /\ initPc.at = "LoadPython"
    /\ IF ok
       THEN /\ languages' = languages \cup { "python" }
            /\ initPc' = [ initPc EXCEPT !.at = IF tsExists THEN "LoadTypescript" ELSE "Import" ]
            /\ UNCHANGED << isInitialized, last >>
       ELSE initCatch /\ UNCHANGED languages
    /\ UNCHANGED << db, parser, initDone, hist, ext, flight, reading, waiting, caller >>

\* this.languages['typescript'] = await Language.load(tsFile)
initLoadTypescript(ok) ==
    /\ initPc.at = "LoadTypescript"
    /\ IF ok
       THEN /\ languages' = languages \cup { "typescript" }
            /\ initPc' = [ initPc EXCEPT !.at = "Import" ]
            /\ UNCHANGED << isInitialized, last >>
       ELSE initCatch /\ UNCHANGED languages
    /\ UNCHANGED << db, parser, initDone, hist, ext, flight, reading, waiting, caller >>

\* await dynamicImport(...); the check of the wasm file; CozoDb.new();
\* the first :create is sent before init suspends again
initImport(ok, wasmExists, accept) ==
    /\ initPc.at = "Import"
    /\ IF ~ok
       THEN initCatch /\ UNCHANGED db
       ELSE IF ~wasmExists
       THEN /\ initPc' = Idle
            /\ last' = [ NoLast EXCEPT !.op = "init", !.ready = initDone ]
            /\ UNCHANGED << isInitialized, db >>
       ELSE LET sent == runCommand(NewDb, CreateStmt(Schemas[1]), accept)
            IN /\ db' = sent.db
               /\ initPc' = [ at |-> "Schema", k |-> 1, ok |-> ~sent.threw ]
               /\ UNCHANGED << isInitialized, last >>
    /\ UNCHANGED << parser, languages, initDone, hist, ext, flight, reading, waiting, caller >>

\* variant: the flag is set after the first declaration
schemasDoneEarly(k) == TRUE

\* has the loop over schemas sent its last statement
schemasDone(k) == k = Len(Schemas)

\* for (const q of schemas) await this.runCommand(q); this.isInitialized = true
initSchema(accept) ==
    /\ initPc.at = "Schema"
    /\ IF ~initPc.ok
       THEN initCatch /\ UNCHANGED << db, initDone >>
       ELSE IF schemasDone(initPc.k)
       THEN /\ isInitialized' = TRUE
            /\ initDone' = (initDone \/ initPc.k = Len(Schemas))
            /\ initPc' = Idle
            /\ last' = [ NoLast EXCEPT !.op = "init", !.ready = initDone ]
            /\ UNCHANGED db
       ELSE LET sent == runCommand(db, CreateStmt(Schemas[initPc.k + 1]), accept)
            IN /\ db' = sent.db
               /\ initPc' = [ at |-> "Schema", k |-> initPc.k + 1, ok |-> ~sent.threw ]
               /\ UNCHANGED << isInitialized, initDone, last >>
    /\ UNCHANGED << parser, languages, hist, ext, flight, reading, waiting, caller >>

(***************************************************************************)
(* processFile, query and getNetwork, each as one step.                    *)
(***************************************************************************)
Facts(d) == << d.symbols, d.relations >>

\* variant: no catch around the body
rethrownUncaught(threwInTry) == threwInTry

\* catch (e) { console.error(...) }: does the exception leave processFile
rethrown(threwInTry) == FALSE

\* variant: every file is taken for a Python file
langKeyAlwaysPython(extension) == "python"

\* let langKey = ''; if (ext === '.py') { langKey = 'python'; } else { return; }
langKeyOf(extension) == IF extension = DotPy THEN "python" ELSE ""

\* async processFile(filePath, content, lastModified = Date.now())
\* ci numbers the content; Date.now() is the number of the call; a call
\* that returns at a guard meets no failure; this.parser.setLanguage is
\* outside the try block
processFile(filePath, ci, fail) ==
    /\ IF ~isInitialized \/ db.handle = 0
          \/ langKeyOf(extname(filePath)) = ""
          \/ langKeyOf(extname(filePath)) \notin languages
       THEN /\ fail = "none"
            /\ last' = [ NoLast EXCEPT !.op = "processFile", !.ready = initDone ]
            /\ UNCHANGED << db, hist >>
       ELSE /\ Len(hist) < MaxCalls
            /\ CanFailAt(fail, filePath, Corpus[ci])
            /\ LET did == processFileTry(db, filePath, Corpus[ci], Len(hist) + 1, fail)
               IN /\ db' = did.db
                  /\ last' = [ NoLast EXCEPT !.op = "processFile", !.ready = initDone,
                                 !.changed = (did.db # db),
                                 !.factsChanged = (Facts(did.db) # Facts(db)),
                                 !.engine = did.engine,
                                 !.threw = (~parser \/ rethrown(did.threw)),
                                 !.failed = did.threw,
                                 !.logged = TRUE ]
            /\ hist' = Append(hist, [ path |-> filePath, content |-> ci, fail |-> fail ])
    /\ UNCHANGED << isInitialized, parser, languages, initPc, initDone, ext, flight, reading, waiting, caller >>

\* a caller's query(datalog)
queryCall(q) ==
    /\ db' = queryEffect(isInitialized, db, q)
    /\ last' = [ NoLast EXCEPT !.op = "query", !.ready = initDone,
                   !.changed = (db' # db),
                   !.engine = (isInitialized /\ db.handle # 0),
                   !.res = query(isInitialized, db, q) ]
    /\ UNCHANGED << isInitialized, parser, languages, initPc, initDone, hist, ext, flight, reading, waiting, caller >>

\* a caller's getNetwork()
getNetworkCall ==
    /\ db' = getNetworkEffect(isInitialized, db)
    /\ last' = [ NoLast EXCEPT !.op = "getNetwork", !.ready = initDone,
                   !.changed = (db' # db),
                   !.engine = (isInitialized /\ db.handle # 0),
                   !.net = getNetwork(isInitialized, db) ]
    /\ UNCHANGED << isInitialized, parser, languages, initPc, initDone, hist, ext, flight, reading, waiting, caller >>

Next ==
    \/ init
    \/ \E ok \in BOOLEAN : initParserInit(ok)
    \/ \E ok \in BOOLEAN, tsExists \in BOOLEAN : initLoadPython(ok, tsExists)
    \/ \E ok \in BOOLEAN : initLoadTypescript(ok)
    \/ \E ok \in BOOLEAN, wasmExists \in BOOLEAN, accept \in BOOLEAN :
           initImport(ok, wasmExists, accept)
    \/ \E accept \in BOOLEAN : initSchema(accept)
    \/ \E filePath \in Paths, ci \in SmallCorpus, fail \in FailPoints :
           processFile(filePath, ci, fail)
    \/ \E q \in ReadExprs : queryCall(q)
    \/ getNetworkCall

Spec == Init /\ [][Next]_vars

(***************************************************************************)
(* Indexing and resolution on a store that init has made ready: every      *)
(* content of the corpus, no failing call.                                 *)
(***************************************************************************)
\* the store init leaves
ReadyDb == [ NewDb EXCEPT !.declared = { Schemas[i] : i \in 1..Len(Schemas) } ]

\* the state in which a successful init leaves the object
InitReady ==
    /\ isInitialized = TRUE
    /\ db = ReadyDb
    /\ parser = TRUE
    /\ languages = { "python" }
    /\ initPc = Idle
    /\ initDone = TRUE
    /\ hist = <<>>
    /\ last = [ NoLast EXCEPT !.op = "init" ]
    /\ ext = NoExt
    /\ flight = NoFlight
    /\ reading = NoReading
    /\ waiting = Idle
    /\ caller = NoCaller

\* the paths indexed on the ready store
ResolvePaths == Paths \cup { PathRef }

NextResolve ==
    \/ \E filePath \in ResolvePaths, ci \in 1..Len(Corpus) : processFile(filePath, ci, "none")
    \/ getNetworkCall

SpecResolve == InitReady /\ [][NextResolve]_vars

(***************************************************************************)
(* Resolution in a workspace whose file names hold the text '-call-': the  *)
(* file 'a.py-call-b.py-call-a.py' is indexed already, the others are      *)
(* indexed next.                                                           *)
(***************************************************************************)
InitDash ==
    /\ isInitialized = TRUE
    /\ db = processFileTry(ReadyDb, PathABA,
                           Corpus[CHOOSE ci \in DashCorpus : Corpus[ci] = TreeDefAndCall],
                           0, "none").db
    /\ parser = TRUE
    /\ languages = { "python" }
    /\ initPc = Idle
    /\ initDone = TRUE
    /\ hist = <<>>
    /\ last = [ NoLast EXCEPT !.op = "processFile", !.ready = TRUE, !.changed = TRUE,
                             !.factsChanged = TRUE, !.engine = TRUE, !.logged = TRUE ]
    /\ ext = NoExt
    /\ flight = NoFlight
    /\ reading = NoReading
    /\ waiting = Idle
    /\ caller = NoCaller

NextDash ==
    \/ \E filePath \in DashPaths, ci \in DashCorpus : processFile(filePath, ci, "none")
    \/ getNetworkCall

SpecDash == InitDash /\ [][NextDash]_vars

(***************************************************************************)
(* A ready store and a caller that passes any expression to query.         *)
(***************************************************************************)
NextQuery ==
    \/ \E filePath \in Paths, ci \in SmallCorpus : processFile(filePath, ci, "none")
    \/ \E q \in QueryExprs : queryCall(q)

SpecQuery == InitReady /\ [][NextQuery]_vars

(***************************************************************************)
(* Two processFile calls that overlap on a ready store: a call runs from   *)
(* its start to its first await, and from one await to the next.  db.run   *)
(* is called before the await, so a statement takes effect in the step     *)
(* that sends it.                                                          *)
(***************************************************************************)
\* variant: the rows are kept in fields of the object, which the call
\* started last has overwritten
pendingRowsShared(fl, slot, rel) ==
    LET newest == CHOOSE t \in Slots : \A u \in Slots : fl[u].order <= fl[t].order
        acc == Extract(fl[newest].path, Corpus[fl[newest].content])
    IN IF rel = "symbols" THEN acc.symbolRows ELSE acc.relations

\* const symbolRows = [], relations = []: the rows a call collected, local
\* to that call
pendingRows(fl, slot, rel) ==
    LET acc == Extract(fl[slot].path, Corpus[fl[slot].content])
    IN IF rel = "symbols" THEN acc.symbolRows ELSE acc.relations

\* the statement a call sends after the one it awaited: the if
\* (rows.length > 0) tests of processFile
StatementAfter(pc, filePath, tree) ==
    LET acc == Extract(filePath, tree)
    IN IF pc = "files" /\ acc.symbolRows # <<>> THEN "symbols"
       ELSE IF pc \in { "files", "symbols" } /\ acc.relations # <<>> THEN "relations"
       ELSE "done"

\* processFile from its call to its first await
startCall(slot, filePath, ci, fail) ==
    /\ flight[slot].pc = "idle"
    /\ isInitialized /\ db.handle # 0
    /\ langKeyOf(extname(filePath)) # "" /\ langKeyOf(extname(filePath)) \in languages
    /\ \A other \in Slots : flight[other].path # filePath
    /\ CanFailAt(fail, filePath, Corpus[ci])
    /\ LET order == 1 + Cardinality({ t \in Slots : flight[t].pc # "idle" })
           others == { flight[t].pc : t \in Slots \ { slot } }
           call == [ NoCall EXCEPT !.path = filePath, !.content = ci, !.fail = fail,
                                   !.order = order,
                                   !.during = CHOOSE at \in others : TRUE ]
           sent == runCommand(db, PutStmt("files", << FileRow(filePath, langKeyOf(extname(filePath)), order) >>),
                              fail # "files")
       IN IF fail = "parse"
          THEN /\ flight' = [ flight EXCEPT ![slot] = [ call EXCEPT !.pc = "done", !.threw = TRUE ] ]
               /\ UNCHANGED db
          ELSE /\ flight' = [ flight EXCEPT ![slot] = [ call EXCEPT !.pc = "files", !.threw = sent.threw ] ]
               /\ db' = sent.db
    /\ UNCHANGED << isInitialized, parser, languages, initPc, initDone, hist, last, ext, reading, waiting, caller >>

\* processFile from one await to the next, or to its end
resumeCall(slot) ==
    /\ flight[slot].pc \in { "files", "symbols", "relations" }
    /\ LET call == flight[slot]
           nxt == StatementAfter(call.pc, call.path, Corpus[call.content])
           sent == runCommand(db, PutStmt(nxt, pendingRows(flight, slot, nxt)), call.fail # nxt)
       IN IF call.threw \/ nxt = "done"
          THEN /\ flight' = [ flight EXCEPT ![slot].pc = "done" ]
               /\ UNCHANGED db
          ELSE /\ flight' = [ flight EXCEPT ![slot].pc = nxt, ![slot].threw = sent.threw ]
               /\ db' = sent.db
    /\ UNCHANGED << isInitialized, parser, languages, initPc, initDone, hist, last, ext, reading, waiting, caller >>

NextConcurrent ==
    \/ \E slot \in Slots, filePath \in Paths, ci \in SmallCorpus, fail \in FailPoints :
           startCall(slot, filePath, ci, fail)
    \/ \E slot \in Slots : resumeCall(slot)

SpecConcurrent == InitReady /\ [][NextConcurrent]_vars

(***************************************************************************)
(* A getNetwork call that overlaps processFile calls on a ready store:     *)
(* getNetwork runs from its call to its first await, and from one await to *)
(* the next; each of its reads sees the store as it is when the read is    *)
(* sent.                                                                   *)
(***************************************************************************)
\* getNetwork from its call to the await of the read of the files
startNetwork ==
    /\ reading.pc = "idle"
    /\ isInitialized /\ db.handle # 0
    /\ reading' = [ NoReading EXCEPT !.pc = "files", !.files = query(isInitialized, db, "files") ]
    /\ UNCHANGED << isInitialized, db, parser, languages, initPc, initDone, hist, last, ext,
                    flight, waiting, caller >>

\* getNetwork from one await to the next, or to its return
resumeNetwork ==
    /\ reading.pc \in { "files", "symbols", "relations" }
    /\ CASE reading.pc = "files" ->
              /\ reading' = [ reading EXCEPT !.pc = "symbols",
                                              !.symbols = query(isInitialized, db, "symbols") ]
              /\ UNCHANGED last
         [] reading.pc = "symbols" ->
              /\ reading' = [ reading EXCEPT !.pc = "relations",
                                              !.relations = query(isInitialized, db, "relations") ]
              /\ UNCHANGED last
         [] reading.pc = "relations" ->
              LET got == getNetworkFrom(reading.files, reading.symbols, reading.relations)
              IN /\ reading' = NoReading
                 /\ last' = [ NoLast EXCEPT !.op = "getNetwork", !.ready = initDone,
                                !.engine = TRUE,
                                !.net = IF got.threw THEN EmptyNetwork
                                        ELSE [ nodes |-> got.nodes, edges |-> got.edges ] ]
    /\ UNCHANGED << isInitialized, db, parser, languages, initPc, initDone, hist, ext,
                    flight, waiting, caller >>

\* the file each of the two callers indexes
OverlapPath == [ slot \in Slots |-> IF slot = 1 THEN PathA ELSE PathB ]

NextOverlap ==
    \/ \E slot \in Slots, ci \in SmallCorpus : startCall(slot, OverlapPath[slot], ci, "none")
    \/ \E slot \in Slots : resumeCall(slot)
    \/ startNetwork
    \/ resumeNetwork

SpecOverlap == InitReady /\ [][NextOverlap]_vars

(***************************************************************************)
(* Two init calls in flight.  initPc is the call whose step comes next,    *)
(* waiting the other call: one that is suspended at an await, or one that  *)
(* has not been made (idle).                                               *)
(***************************************************************************)
\* the other init call is the one that runs next
otherInit ==
    /\ initPc # waiting
    /\ initPc' = waiting
    /\ waiting' = initPc
    /\ UNCHANGED << isInitialized, db, parser, languages, initDone, hist, last, ext, flight,
                    reading, caller >>

NextInits ==
    \/ init
    \/ otherInit
    \/ \E ok \in BOOLEAN : initParserInit(ok)
    \/ \E ok \in BOOLEAN, tsExists \in BOOLEAN : initLoadPython(ok, tsExists)
    \/ \E ok \in BOOLEAN : initLoadTypescript(ok)
    \/ \E ok \in BOOLEAN, wasmExists \in BOOLEAN, accept \in BOOLEAN :
           initImport(ok, wasmExists, accept)
    \/ \E accept \in BOOLEAN : initSchema(accept)
    \/ \E filePath \in Paths, ci \in SmallCorpus : processFile(filePath, ci, "none")

SpecInits == Init /\ [][NextInits]_vars

(***************************************************************************)
(* One extraction of a generated tree.                                     *)
(***************************************************************************)
InitExtract ==
    /\ InitGraph
    /\ caller = NoCaller
    /\ ext \in { [ phase |-> "input", filePath |-> PathA, root |-> t,
                   out |-> NewCollect(PathA) ] : t \in GeneratedTrees(MaxNodes) }

\* traverseAndCollect(tree.rootNode)
extract ==
    /\ ext.phase = "input"
    /\ ext' = [ ext EXCEPT !.phase = "done", !.out = Extract(ext.filePath, ext.root) ]
    /\ UNCHANGED << isInitialized, db, parser, languages, initPc, initDone, hist, last, flight, reading, waiting, caller >>

NextExtract == extract

SpecExtract == InitExtract /\ [][NextExtract]_vars

(***************************************************************************)
(* The caller's file that getNetwork derives from the ids that processFile *)
(* generates, for generated file paths.                                    *)
(***************************************************************************)
\* the characters of the part of a path before its extension
StemChars == { "a", ":", "/" }

RECURSIVE Stems(_)
\* the strings of 1 to n such characters
Stems(n) ==
    IF n = 0 THEN {}
    ELSE LET shorter == Stems(n - 1)
         IN { << c >> : c \in StemChars } \cup shorter
            \cup { Append(st, c) : st \in shorter, c \in StemChars }

CallerPaths == { st \o DotPy : st \in Stems(MaxStem) }

CallerNames == { << "f" >>, << "g" >>, NameInit }

InitCaller ==
    /\ InitGraph
    /\ ext = NoExt
    /\ caller \in { [ NoCaller EXCEPT !.phase = "input", !.filePath = filePath, !.name = name ] :
                       filePath \in CallerPaths, name \in CallerNames }

\* sourceFile of a call relation whose fromId is the file path of the
\* caller, and of one whose fromId is generateId(filePath, name)
deriveCallerFile ==
    /\ caller.phase = "input"
    /\ caller' = [ caller EXCEPT
                     !.phase = "done",
                     !.ofPath = sourceFileOf(caller.filePath),
                     !.ofId = sourceFileOf(generateId(caller.filePath, caller.name)) ]
    /\ UNCHANGED << isInitialized, db, parser, languages, initPc, initDone, hist, last, ext,
                    flight, reading, waiting >>

NextCaller == deriveCallerFile

SpecCaller == InitCaller /\ [][NextCaller]_vars

(***************************************************************************)
(* Properties.                                                             *)
(***************************************************************************)
\* what the store holds after one unfailing pass over a tree, from empty
DerivedSymbols(filePath, tree) == PutRows("symbols", {}, Extract(filePath, tree).symbolRows)
DerivedRelations(filePath, tree) == PutRows("relations", {}, Extract(filePath, tree).relations)

\* is the id the file path, or an id generated for that file
OwnedBy(filePath, id) ==
    \/ id = filePath
    \/ /\ Len(id) > Len(filePath)
       /\ SubSeq(id, 1, Len(filePath) + 1) = filePath \o Colon

\* the state is the one in which the last logged processFile call returned
AfterLoggedCall == last.op = "processFile" /\ last.logged

NodeIds(net) == { net.nodes[i].id : i \in 1..Len(net.nodes) }
EdgeSet(net) == { net.edges[i] : i \in 1..Len(net.edges) }

\* C1: a processFile call that repeats the call before it (same path, same
\* content, same outcome of the engine) leaves the Symbol rows and the
\* Relation rows of the store as they were.
C1_Idempotent ==
    ( /\ AfterLoggedCall
      /\ Len(hist) >= 2
      /\ hist[Len(hist)] = hist[Len(hist) - 1] )
    => ~last.factsChanged

C1_Witness ==
    /\ AfterLoggedCall
    /\ Len(hist) >= 2
    /\ hist[Len(hist)] = hist[Len(hist) - 1]
    /\ hist[Len(hist)].fail = "none"
    /\ Corpus[hist[Len(hist)].content] = TreeTwice
    /\ db.symbols # {} /\ db.relations # {}
    /\ last.changed

\* the names the index is built from
IndexedNames ==
    { r.name : r \in db.symbols } \cup { basename(r.path, extname(r.path)) : r \in db.files }

FilesDefining(name) == { r.file_path : r \in { x \in db.symbols : x.name = name } }

\* the file a stored caller id belongs to: the File row, or the file of
\* the Symbol row, with that key
CallerFiles(fromId) ==
    { r.path : r \in { x \in db.files : x.path = fromId } }
    \cup { r.file_path : r \in { x \in db.symbols : x.id = fromId } }

\* C3: when symbols of one name are stored for two files, getNetwork links
\* a call of that name made in one of the two files to the symbol of that
\* file.
C3_SameFilePreferred ==
    ( last.op = "getNetwork" /\ isInitialized ) =>
        \A r \in { x \in db.relations : x.type = "call" } :
            \A fileA \in CallerFiles(r.from_id) :
                ( /\ fileA \in FilesDefining(targetNameOf(r.to_id))
                  /\ FilesDefining(targetNameOf(r.to_id)) # { fileA } )
                => \E e \in EdgeSet(last.net) :
                      /\ e.source = r.from_id
                      /\ e.type = "call"
                      /\ e.target = generateId(fileA, targetNameOf(r.to_id))

\* C4: when a stored call or import names nothing that is indexed,
\* getNetwork still returns a node for every File row and Symbol row, and
\* no edge for that relation's target.
C4_UnresolvedDropped ==
    ( /\ last.op = "getNetwork" /\ isInitialized
      /\ \E r \in db.relations :
            r.type \in { "call", "import" } /\ targetNameOf(r.to_id) \notin IndexedNames )
    => /\ NodeIds(last.net) = { r.path : r \in db.files } \cup { r.id : r \in db.symbols }
       /\ \A e \in EdgeSet(last.net) : e.target \in NodeIds(last.net)

\* C5: in a traversal the scope stack is pushed as often as it is popped,
\* never becomes empty, and ends as [filePath].
C5_ScopeBalance ==
    ext.phase = "done" =>
        /\ ext.out.pushes = ext.out.pops
        /\ ext.out.low >= 1
        /\ ext.out.scopeStack = << ext.filePath >>

\* a tree with a named definition nested in a named one, and a definition
\* without a name that has children
C5_Witness ==
    /\ ext.phase = "done"
    /\ ext.out.pushes >= 2
    /\ \E r \in { ext.out.relations[i] : i \in 1..Len(ext.out.relations) } :
          r.type = "contains" /\ r.from_id # ext.filePath
    /\ \E i \in 1..Len(ext.root.children) :
          /\ ext.root.children[i].type \in DefinitionTypes
          /\ ~PushesScope(ext.root.children[i])
          /\ ext.root.children[i].children # <<>>

ContainsOf(relations) == SelectSeq(relations, LAMBDA r : r.type = "contains")

\* C6: in one pass the n-th contains relation goes to the n-th Symbol
\* emitted, and comes from the file path or from a Symbol emitted before
\* that one.
C6_ContainsSound ==
    ext.phase = "done" =>
        LET contains == ContainsOf(ext.out.relations)
            symbols == ext.out.symbolRows
        IN /\ Len(contains) = Len(symbols)
           /\ \A n \in 1..Len(contains) :
                 /\ contains[n].to_id = symbols[n].id
                 /\ \/ contains[n].from_id = ext.filePath
                    \/ \E i \in 1..(n - 1) : symbols[i].id = contains[n].from_id

C6_Witness ==
    /\ ext.phase = "done"
    /\ \E n \in 1..Len(ContainsOf(ext.out.relations)) :
          /\ ContainsOf(ext.out.relations)[n].from_id # ext.filePath
          /\ ContainsOf(ext.out.relations)[n].from_id # ContainsOf(ext.out.relations)[n].to_id

\* C7: after two unfailing passes over one file, the Symbol rows and the
\* Relation rows of that file are those derived from the second content.
C7_FullReplacement ==
    ( /\ AfterLoggedCall
      /\ Len(hist) >= 2
      /\ hist[Len(hist)].path = hist[Len(hist) - 1].path
      /\ hist[Len(hist)].fail = "none" /\ hist[Len(hist) - 1].fail = "none" )
    => LET filePath == hist[Len(hist)].path
           tree == Corpus[hist[Len(hist)].content]
       IN /\ { r \in db.symbols : r.file_path = filePath } = DerivedSymbols(filePath, tree)
          /\ { r \in db.relations : OwnedBy(filePath, r.from_id) } = DerivedRelations(filePath, tree)

\* C8: a processFile call whose parse or whose upsert failed leaves the
\* store as it was.
C8_FailedCallAddsNothing ==
    ( AfterLoggedCall /\ last.failed ) => ~last.changed

\* the call at place i of the log is the last one for its path
LastForPath(i) == \A j \in (i + 1)..Len(hist) : hist[j].path # hist[i].path

\* C9: no processFile call raises, a failing call leaves the object ready,
\* and every unfailing call of the log, whatever failed before or after
\* it, has its File row, its Symbol rows and its Relation rows in the store
\* (as long as its file was not indexed again).
C9_BatchTolerant ==
    /\ last.op = "processFile" => ~last.threw
    /\ hist # <<>> => isInitialized /\ db.handle # 0
    /\ \A i \in 1..Len(hist) :
          ( hist[i].fail = "none" /\ LastForPath(i) ) =>
              /\ \E r \in db.files : r.path = hist[i].path
              /\ DerivedSymbols(hist[i].path, Corpus[hist[i].content]) \subseteq db.symbols
              /\ DerivedRelations(hist[i].path, Corpus[hist[i].content]) \subseteq db.relations

C9_Witness ==
    /\ Len(hist) = 2
    /\ hist[1].fail = "symbols"
    /\ hist[2].fail = "none"
    /\ hist[1].path # hist[2].path
    /\ AfterLoggedCall /\ last.changed /\ ~last.failed
    /\ DerivedSymbols(hist[2].path, Corpus[hist[2].content]) # {}

ReadOps == { "processFile", "query", "getNetwork" }

\* C10: while no init call has run to its end, processFile changes
\* nothing, query returns {ok: false, rows: []}, getNetwork returns no
\* node and no edge, and none of them raises or reaches the engine.
C10_NotReadyNoOp ==
    /\ ( last.op \in ReadOps /\ ~last.ready ) =>
          /\ ~last.changed /\ ~last.logged
          /\ ~last.engine /\ ~last.threw
          /\ last.op = "query" => last.res = NotReadyResult
          /\ last.op = "getNetwork" => last.net = EmptyNetwork
    /\ ~initDone =>
          /\ hist = <<>>
          /\ db.files = {} /\ db.symbols = {} /\ db.relations = {}

\* a call made while init is suspended between two schema declarations
C10_Witness ==
    /\ last.op \in ReadOps /\ ~last.ready
    /\ initPc.at = "Schema" /\ initPc.k = 2 /\ initPc.ok
    /\ db.declared = { "files", "symbols" }
    /\ languages = { "python" } /\ parser

\* the step is a call of init: it returns at once, or it suspends at its
\* first await
InitCalled ==
    /\ initPc.at = "idle"
    /\ \/ initPc'.at # "idle"
       \/ last'.op = "init" /\ last.op # "init"

\* C11: an init call made after an init call has succeeded returns at
\* once: the database, its declared relations and its File, Symbol and
\* Relation rows, the parser, the languages and the flag stay as they are.
C11_InitIdempotent ==
    [][ ( isInitialized /\ initDone /\ InitCalled )
        => ( initPc' = Idle /\ UNCHANGED << isInitialized, db, parser, languages >> ) ]_vars

\* an init call has returned on a ready store that holds facts
C11_Witness ==
    /\ last.op = "init" /\ last.ready
    /\ isInitialized /\ initDone
    /\ db.files # {} /\ db.symbols # {} /\ db.relations # {}

\* C12: a query call that fails returns ok = false with a rows field
\* that is there and empty, and does not raise.
C12_QueryFailureHasRows ==
    ( last.op = "query" /\ ~last.res.ok ) =>
        /\ ~last.threw
        /\ last.res.hasRows
        /\ last.res.rows = <<>>

\* C13: a query call leaves the database as it was.
C13_QueryReadOnly ==
    last.op = "query" => ~last.changed

\* the paths whose extension is not that of a supported language
UnsupportedPaths == { filePath \in Paths : extname(filePath) # DotPy }

\* C14: a processFile call on a file whose extension is not '.py' changes
\* nothing, does not reach the parser or the engine, and raises nothing,
\* on a store that is ready as on one that is not.
C14_UnsupportedNoOp ==
    [][ ( /\ last'.op = "processFile"
          /\ \E filePath \in UnsupportedPaths, ci \in SmallCorpus, fail \in FailPoints :
                 processFile(filePath, ci, fail) )
        => /\ UNCHANGED << isInitialized, db, parser, languages, hist >>
           /\ ~last'.threw /\ ~last'.logged /\ ~last'.engine /\ ~last'.changed ]_vars

\* such a call has returned on a ready store that holds facts
C14_Witness ==
    /\ last.op = "processFile" /\ ~last.logged /\ last.ready
    /\ isInitialized /\ db.handle # 0 /\ "python" \in languages
    /\ db.symbols # {}

\* C15: on a ready store getNetwork returns one node for each File row
\* (kind 'file', label = path), one node for each Symbol row (its kind,
\* label = name), and no other node.
C15_NodesExact ==
    ( last.op = "getNetwork" /\ isInitialized /\ db.handle # 0 ) =>
        /\ { last.net.nodes[i] : i \in 1..Len(last.net.nodes) } =
               { NodeOf(r.path, "file", r.path) : r \in db.files }
               \cup { NodeOf(r.id, r.kind, r.name) : r \in db.symbols }
        /\ Len(last.net.nodes) = Cardinality(db.files) + Cardinality(db.symbols)

\* the log holds calls of the reference scenario only
ReferenceOnly ==
    /\ hist # <<>>
    /\ \A i \in 1..Len(hist) : hist[i].path = PathRef /\ Corpus[hist[i].content] = TreeReference

RefId(name) == generateId(PathRef, name)

\* C16: after processFile of the reference file the store holds the
\* contains relations file->User, User->__init__, User->greet, file->main,
\* the imports file->os, file->sys and the calls of main to User, u.greet
\* and os.getcwd; getNetwork then returns the call edges main->User and
\* main->greet, to the ids of those symbols, and no edge to or from
\* anything named getcwd, os or sys.
C16_ReferenceScenario ==
    ReferenceOnly =>
        /\ { r \in db.relations : r.type # "call" \/ r.from_id = RefId(NameMain) } =
             { RelationRow(PathRef, RefId(NameUser), "contains"),
               RelationRow(RefId(NameUser), RefId(NameInit), "contains"),
               RelationRow(RefId(NameUser), RefId(NameGreet), "contains"),
               RelationRow(PathRef, RefId(NameMain), "contains"),
               RelationRow(PathRef, << "o", "s" >>, "import"),
               RelationRow(PathRef, << "s", "y", "s" >>, "import"),
               RelationRow(RefId(NameMain), NameUser, "call"),
               RelationRow(RefId(NameMain), << "u", ".", "g", "r", "e", "e", "t" >>, "call"),
               RelationRow(RefId(NameMain), << "o", "s", ".", "g", "e", "t", "c", "w", "d" >>, "call") }
        /\ last.op = "getNetwork" =>
              /\ { e \in EdgeSet(last.net) : e.type = "call" } =
                   { EdgeOf(RefId(NameMain) \o DashCall \o RefId(NameUser),
                            RefId(NameMain), RefId(NameUser), "call"),
                     EdgeOf(RefId(NameMain) \o DashCall \o RefId(NameGreet),
                            RefId(NameMain), RefId(NameGreet), "call") }
              /\ \A e \in EdgeSet(last.net) : e.type # "import"
              /\ NodeIds(last.net) =
                   { PathRef, RefId(NameUser), RefId(NameInit), RefId(NameGreet), RefId(NameMain) }

C16_Witness ==
    /\ ReferenceOnly
    /\ last.op = "getNetwork"
    /\ Len(last.net.edges) = 6

\* both calls have returned
AllDone == \A slot \in Slots : flight[slot].pc = "done"

\* the call started as the k-th
CallOfOrder(k) == flight[CHOOSE slot \in Slots : flight[slot].order = k]

\* the store after the same two calls, the second started when the first
\* has returned, on the store init leaves
OneAfterTheOther ==
    LET start == [ NewDb EXCEPT !.declared = { Schemas[i] : i \in 1..Len(Schemas) } ]
        c1 == CallOfOrder(1)
        c2 == CallOfOrder(2)
        after1 == processFileTry(start, c1.path, Corpus[c1.content], 1, c1.fail).db
    IN processFileTry(after1, c2.path, Corpus[c2.content], 2, c2.fail).db

\* C17: when two processFile calls on two file paths have overlapped, in
\* whatever order their statements reached the engine, the store holds
\* the File, Symbol and Relation rows it holds after the two calls made
\* one after the other.
C17_ConcurrentAsSequential ==
    AllDone => db = OneAfterTheOther

\* the second call started while the first awaited its File rows, both
\* unfailing and with symbols and relations of their own
C17_Witness ==
    /\ AllDone
    /\ CallOfOrder(2).during = "files"
    /\ \A slot \in Slots :
          /\ flight[slot].fail = "none"
          /\ DerivedSymbols(flight[slot].path, Corpus[flight[slot].content]) # {}
          /\ DerivedRelations(flight[slot].path, Corpus[flight[slot].content]) # {}
    /\ CallOfOrder(1).content # CallOfOrder(2).content

\* the entries the index holds for a name: the files of that base name
\* and the symbols of that name, each with the file it is in
CandidatesFor(name) ==
    { [ id |-> r.path, file |-> r.path, isFile |-> TRUE ] :
          r \in { x \in db.files : basename(x.path, extname(x.path)) = name } }
    \cup { [ id |-> r.id, file |-> r.file_path, isFile |-> FALSE ] :
          r \in { x \in db.symbols : x.name = name } }

\* the order of the entries: files before symbols, each in the order of
\* the rows
CandidateBefore(c, d) ==
    \/ c.isFile /\ ~d.isFile
    \/ c.isFile = d.isFile /\ StrLess(c.id, d.id)

\* C18: getNetwork links an import whose target name has candidates to a
\* candidate in the importing file when there is one, and to the first
\* candidate otherwise.
C18_ImportSameFilePreferred ==
    ( last.op = "getNetwork" /\ isInitialized /\ db.handle # 0 ) =>
        \A r \in { x \in db.relations : x.type = "import" } :
            LET cands == CandidatesFor(targetNameOf(r.to_id))
                own == { c \in cands : c.file = r.from_id }
                wanted == IF own # {} THEN own
                          ELSE { c \in cands : \A d \in cands \ { c } : CandidateBefore(c, d) }
            IN cands # {} =>
                  /\ \E e \in EdgeSet(last.net) :
                        /\ e.source = r.from_id /\ e.type = "import"
                        /\ e.target \in { c.id : c \in wanted }
                  /\ \A e \in EdgeSet(last.net) :
                        ( /\ e.source = r.from_id /\ e.type = "import"
                          /\ e.target \in { c.id : c \in cands } )
                        => e.target \in { c.id : c \in wanted }

RECURSIVE ExpectedCalls(_, _, _)
RECURSIVE ExpectedCallsBelow(_, _, _, _)

\* the call relations of the nodes children[i], children[i + 1], ..., all
\* inside the definition (or file) of id scopeId
ExpectedCallsBelow(filePath, children, i, scopeId) ==
    IF i > Len(children) THEN <<>>
    ELSE ExpectedCalls(filePath, children[i], scopeId)
         \o ExpectedCallsBelow(filePath, children, i + 1, scopeId)

\* the call relations of a subtree in document order, each from the
\* innermost definition with a name around the call site; scopeId is the
\* id of the innermost such definition around the node (the file path
\* when there is none)
ExpectedCalls(filePath, node, scopeId) ==
    LET inner == IF PushesScope(node)
                 THEN generateId(filePath, childForFieldName(node, "name")[1].text)
                 ELSE scopeId
        fn == childForFieldName(node, "function")
        own == IF node.type \in { "call", "call_expression" } /\ fn # <<>>
               THEN << RelationRow(inner, fn[1].text, "call") >>
               ELSE <<>>
    IN own \o ExpectedCallsBelow(filePath, node.children, 1, inner)

CallsOf(relations) == SelectSeq(relations, LAMBDA r : r.type = "call")

\* C19: the call relations of a pass are, in document order, the calls of
\* the tree, each from the innermost enclosing definition that has a name,
\* or from the file when there is none; a call after a definition, as a
\* later sibling, is not from that definition.
C19_CallAttribution ==
    ext.phase = "done" =>
        CallsOf(ext.out.relations) = ExpectedCalls(ext.filePath, ext.root, ext.filePath)

\* a named definition with a call in it, followed by a call
C19_Witness ==
    /\ ext.phase = "done"
    /\ Len(ext.root.children) = 2
    /\ PushesScope(ext.root.children[1])
    /\ ext.root.children[2].type = "call"
    /\ Len(CallsOf(ext.out.relations)) = 2
    /\ CallsOf(ext.out.relations)[1].from_id # ext.filePath
    /\ CallsOf(ext.out.relations)[2].from_id = ext.filePath

RECURSIVE WithoutAnonymous(_)
\* the tree with every definition node that has no name turned into a
\* plain node
WithoutAnonymous(node) ==
    [ node EXCEPT
        !.type = IF node.type \in DefinitionTypes /\ ~PushesScope(node) THEN "block" ELSE @,
        !.children = [ i \in 1..Len(node.children) |-> WithoutAnonymous(node.children[i]) ] ]

\* is there, below the node, a named definition that holds a definition
\* without a name that holds a call or a named definition
AnonymousInside(node) ==
    \E i \in 1..Len(node.children) :
        /\ PushesScope(node.children[i])
        /\ \E j \in 1..Len(node.children[i].children) :
              LET anon == node.children[i].children[j]
              IN /\ anon.type \in DefinitionTypes /\ ~PushesScope(anon)
                 /\ \E k \in 1..Len(anon.children) :
                       anon.children[k].type = "call" \/ PushesScope(anon.children[k])

\* C20: a definition node without a name emits no Symbol and no contains
\* relation and pushes no scope: the pass derives what it derives from
\* the tree in which those nodes are plain nodes, so what is nested in
\* them belongs to the scope around them.
C20_AnonymousTransparent ==
    ext.phase = "done" =>
        LET plain == Extract(ext.filePath, WithoutAnonymous(ext.root))
        IN /\ ext.out.symbolRows = plain.symbolRows
           /\ ext.out.relations = plain.relations
           /\ ext.out.pushes = plain.pushes
           /\ ext.out.pushes = Len(ext.out.symbolRows)

C20_Witness ==
    /\ ext.phase = "done"
    /\ AnonymousInside(ext.root)
    /\ WithoutAnonymous(ext.root) # ext.root
    /\ Len(ext.out.symbolRows) = 1
    /\ Len(ext.out.relations) = 2
    /\ ext.out.relations[2].from_id = ext.out.symbolRows[1].id

\* the last row of a pass that has the id: the definition visited last
LastEmitted(symbolRows, id) ==
    symbolRows[CHOOSE i \in 1..Len(symbolRows) :
                  /\ symbolRows[i].id = id
                  /\ \A j \in (i + 1)..Len(symbolRows) : symbolRows[j].id # id]

\* C21: after an unfailing processFile call the store holds, for each
\* Symbol id of the pass, one row, and that row has the kind and the line
\* span of the definition of that id that the traversal visited last.
C21_LaterDefinitionWins ==
    ( AfterLoggedCall /\ ~last.failed ) =>
        LET filePath == hist[Len(hist)].path
            symbolRows == Extract(filePath, Corpus[hist[Len(hist)].content]).symbolRows
        IN \A i \in 1..Len(symbolRows) :
              { r \in db.symbols : r.id = symbolRows[i].id }
                  = { LastEmitted(symbolRows, symbolRows[i].id) }

\* nameToIds after the forEach over the files and over the symbols
BuiltIndex(d) ==
    indexSymbols(indexFiles(EmptyIndex, query(TRUE, d, "files").rows, 1),
                 query(TRUE, d, "symbols").rows, 1)

\* the triple (source, type, target) a stored relation resolves to: a
\* set of one triple, or of none when the relation is dropped
ResolvedTriple(ix, r) ==
    LET found == Lookup(ix.own, targetNameOf(r.to_id))
    IN CASE r.type = "contains" ->
              IF r.from_id \in ix.valid /\ r.to_id \in ix.valid
              THEN { << r.from_id, "contains", r.to_id >> } ELSE {}
         [] r.type = "call" ->
              IF found[1] = "array"
              THEN { << r.from_id, "call", pickCall(found[2], sourceFileOf(r.from_id)) >> }
              ELSE {}
         [] r.type = "import" ->
              IF found[1] = "array"
              THEN { << r.from_id, "import", found[2][1].id >> } ELSE {}

ResolvedTriples(d) == UNION { ResolvedTriple(BuiltIndex(d), r) : r \in d.relations }

\* C22: the edges getNetwork returns are the triples (source, type,
\* target) the stored relations resolve to, each once: no triple is
\* returned twice and none is left out.
C22_OneEdgePerTriple ==
    ( last.op = "getNetwork" /\ isInitialized /\ db.handle # 0 ) =>
        /\ { << e.source, e.type, e.target >> : e \in EdgeSet(last.net) } = ResolvedTriples(db)
        /\ Len(last.net.edges) = Cardinality(ResolvedTriples(db))

RECURSIVE WrittenTargets(_)
\* the texts written in a file as the function of a call or as an
\* imported module
WrittenTargets(node) ==
    LET fn == childForFieldName(node, "function")
        own == IF node.type \in { "call", "call_expression" } /\ fn # <<>>
               THEN { fn[1].text }
               ELSE IF node.type \in { "import_statement", "import_from_statement" }
               THEN { node.children[i].text : i \in 1..Len(node.children) }
               ELSE {}
    IN own \cup UNION { WrittenTargets(node.children[i]) : i \in 1..Len(node.children) }

\* the same, for each content of the corpus
WrittenTable == [ ci \in 1..Len(Corpus) |-> WrittenTargets(Corpus[ci]) ]

\* C23: every call or import row of the store has as to_id a text written
\* in a file indexed under the path its from_id belongs to, and a
\* getNetwork call leaves the store as it was.
C23_StoreHoldsRawTargets ==
    /\ \A r \in { x \in db.relations : x.type \in { "call", "import" } } :
          \E i \in 1..Len(hist) :
              /\ OwnedBy(hist[i].path, r.from_id)
              /\ r.to_id \in WrittenTable[hist[i].content]
    /\ last.op = "getNetwork" => ~last.changed

\* getNetwork has returned call and import edges to ids that the store
\* does not hold as targets
C23_Witness ==
    /\ last.op = "getNetwork" /\ isInitialized
    /\ \A t \in { "call", "import" } :
          \E e \in EdgeSet(last.net) :
              /\ e.type = t
              /\ \A r \in db.relations : r.to_id # e.target \/ r.type = "contains"

\* C24: a call whose target name has candidates, none of them in the
\* caller's file, is linked to the first candidate of the index: files
\* come before symbols, each in the order of the rows, so a file of that
\* base name comes before every symbol of that name.
C24_FirstCandidateWins ==
    ( last.op = "getNetwork" /\ isInitialized /\ db.handle # 0 ) =>
        \A r \in { x \in db.relations : x.type = "call" } :
            LET cands == CandidatesFor(targetNameOf(r.to_id))
                first == { c \in cands : \A d \in cands \ { c } : CandidateBefore(c, d) }
            IN ( /\ cands # {}
                 /\ \A c \in cands : c.file \notin CallerFiles(r.from_id) )
               => /\ \E e \in EdgeSet(last.net) :
                        /\ e.source = r.from_id /\ e.type = "call"
                        /\ e.target \in { c.id : c \in first }
                  /\ \A e \in EdgeSet(last.net) :
                        ( /\ e.source = r.from_id /\ e.type = "call"
                          /\ e.target \in { c.id : c \in cands } )
                        => e.target \in { c.id : c \in first }

\* the relations a pass emits more than once
EmittedAgain(relations) ==
    { relations[i] : i \in { k \in 1..Len(relations) :
                                \E j \in 1..(k - 1) : relations[j] = relations[k] } }

\* C25: every Relation row of the store has count = 1.
C25_CountIsOne ==
    \A r \in db.relations : r.count = 1

\* a file indexed twice, unfailing, whose pass emits one relation twice
C25_Witness ==
    /\ AfterLoggedCall /\ ~last.failed
    /\ Len(hist) = 2
    /\ hist[1] = hist[2]
    /\ EmittedAgain(Extract(hist[2].path, Corpus[hist[2].content]).relations) \cap db.relations # {}

\* C26: a getNetwork call whose reads were interleaved with the
\* statements of processFile calls returns a graph in which the source
\* and the target of every edge are among the nodes.
C26_OverlapEdgesHaveEndpoints ==
    ( last.op = "getNetwork" /\ reading.pc = "idle" ) =>
        { e.source : e \in EdgeSet(last.net) } \cup { e.target : e \in EdgeSet(last.net) }
            \subseteq NodeIds(last.net)

\* the keys of the rows a database holds
StoredKeys(d) ==
    { << "files", KeyOf("files", r) >> : r \in d.files }
    \cup { << "symbols", KeyOf("symbols", r) >> : r \in d.symbols }
    \cup { << "relations", KeyOf("relations", r) >> : r \in d.relations }

\* C27: when two init calls overlap, the facts that processFile stored
\* after the first call completed are not lost through the second call:
\* every key the database in use holds is held after each step.
C27_OverlapKeepsFacts ==
    [][ StoredKeys(db) \subseteq StoredKeys(db') ]_vars

\* the relations init declares
AllDeclared == { Schemas[i] : i \in 1..Len(Schemas) }

StoredIds == { r.path : r \in db.files } \cup { r.id : r \in db.symbols }

\* C29: every contains row of the store goes from the key of a File or
\* Symbol row to the key of a File or Symbol row, also after calls in
\* which the engine rejected an upsert.
C29_ContainsEndpointsStored ==
    \A r \in { x \in db.relations : x.type = "contains" } :
        r.from_id \in StoredIds /\ r.to_id \in StoredIds

\* a call whose Symbol rows the engine rejected has returned, after its
\* File row was stored, on a store that holds contains rows
C29_Witness ==
    /\ AfterLoggedCall /\ last.failed /\ last.changed
    /\ hist[Len(hist)].fail = "symbols"
    /\ \E r \in db.relations : r.type = "contains" /\ r.from_id \in { x.id : x \in db.symbols }

\* C30: the caller's file that getNetwork derives from a fromId, be it
\* the file path or the id generateId(filePath, name), is the file path
\* under which the caller was indexed.
C30_CallerFileRoundTrip ==
    caller.phase = "done" =>
        /\ caller.ofPath = caller.filePath
        /\ caller.ofId = caller.filePath

====
